---- MODULE Spec2Model ----
(***************************************************************************)
(* A model of module_control_unit/nav.py: class ModuleNavigation.          *)
(*                                                                         *)
(* Arrays (numpy) are records [shape |-> <<Y, X>>, at |-> [cell |-> pair]]. *)
(* Node ids are the 8-byte strings struct.pack('II', y, x) produces.       *)
(* Floating point quantities (distances, velocities, weights) are fixed    *)
(* point integers; the geodesic library is modelled on a plane.            *)
(***************************************************************************)
EXTENDS Integers, Sequences, FiniteSets, TLC

\* Largest grid dimension of the grids callers pass in.
MaxDim == 3

\* ------------------------------------------------------------------------
\* Arithmetic helpers (numpy / math primitives the code calls)
\* ------------------------------------------------------------------------

Abs(n) == IF n < 0 THEN -n ELSE n

RECURSIVE SqrtSearch(_, _, _)
SqrtSearch(n, lo, hi) ==
    IF lo >= hi THEN lo
    ELSE LET mid == (lo + hi + 1) \div 2
         IN IF mid * mid <= n THEN SqrtSearch(n, mid, hi)
                              ELSE SqrtSearch(n, lo, mid - 1)

\* np.sqrt on a non-negative fixed point number (rounded down)
ISqrt(n) == SqrtSearch(n, 0, IF n < 46340 THEN n ELSE 46340)

\* np.sin(np.radians(theta)) in thousandths, theta an integer number of
\* degrees in [0, 360)  (Bhaskara's rational approximation)
SinMilli(theta) ==
    LET t == theta % 360
        h == IF t <= 180 THEN t ELSE t - 180
        p == h * (180 - h)
        s == (4000 * p) \div (40500 - p)
    IN IF t <= 180 THEN s ELSE -s

\* np.cos(np.radians(theta)) in thousandths
CosMilli(theta) == SinMilli(theta + 90)

\* velocity * sin/cos: a fixed point product, rounded towards zero
Scale(v, milli) ==
    IF milli >= 0 THEN (v * milli) \div 1000 ELSE -((v * (-milli)) \div 1000)

\* ------------------------------------------------------------------------
\* Node ids: struct.pack('II', y, x) / struct.unpack('II', raw)
\* ------------------------------------------------------------------------

\* the four bytes of a native unsigned int, least significant first
\* packing that repeats the second byte in place of the third
PackUInt_RepeatedByte(v) ==
    << v % 256, (v \div 256) % 256, (v \div 256) % 256, (v \div 16777216) % 256 >>

PackUInt(v) ==
    << v % 256, (v \div 256) % 256, (v \div 65536) % 256, (v \div 16777216) % 256 >>

UnpackUInt(raw, off) ==
    raw[off + 1] + 256 * raw[off + 2] + 65536 * raw[off + 3] + 16777216 * raw[off + 4]

encode_node_id(idx_pos) == PackUInt(idx_pos[1]) \o PackUInt(idx_pos[2])

decode_node_id(raw) == << UnpackUInt(raw, 0), UnpackUInt(raw, 4) >>

\* ------------------------------------------------------------------------
\* numpy arrays
\* ------------------------------------------------------------------------

Cells(shape) == (0 .. shape[1] - 1) \X (0 .. shape[2] - 1)

\* arr[y, x] is defined (non-negative indices only are ever used)
InBounds(arr, cell) ==
    /\ 0 <= cell[1] /\ cell[1] < arr.shape[1]
    /\ 0 <= cell[2] /\ cell[2] < arr.shape[2]

\* the flat (row-major) position of a cell, and back: np.ravel / np.unravel_index
RowMajor(shape) ==
    [i \in 1 .. shape[1] * shape[2] |-> << (i - 1) \div shape[2], (i - 1) % shape[2] >>]

\* ------------------------------------------------------------------------
\* pyproj.Geod(ellps='WGS84').inv, on a plane
\* ------------------------------------------------------------------------

\* length of one degree, in the fixed point unit of distance
UnitsPerDegree == 100

\* arctan(a / b) in whole degrees for 0 <= a <= b, b > 0
AtanDeg(a, b) == (45 * a * b + 16 * a * (b - a)) \div (b * b)

\* forward azimuth in (-180, 180], clockwise from north, of the offset
\* (de degrees east, dn degrees north)
Atan2Deg(de, dn) ==
    LET ae == Abs(de)
        an == Abs(dn)
        q  == IF ae = 0 /\ an = 0 THEN 0
              ELSE IF ae <= an THEN AtanDeg(ae, an) ELSE 90 - AtanDeg(an, ae)
    IN CASE dn >= 0 /\ de >= 0 -> q
         [] dn <  0 /\ de >= 0 -> 180 - q
         [] dn <  0 /\ de <  0 -> q - 180
         [] OTHER              -> -q

\* geod.inv(lon_src, lat_src, lon_dst, lat_dst) -> (azimuth, _, dist);
\* coordinates are <<lat, lon>> pairs
GeodInv(src, dst) ==
    LET dn == dst[1] - src[1]
        de == dst[2] - src[2]
    IN [azimuth |-> Atan2Deg(de, dn),
        dist    |-> ISqrt((dn * UnitsPerDegree) * (dn * UnitsPerDegree)
                          + (de * UnitsPerDegree) * (de * UnitsPerDegree))]

\* a list comprehension, evaluated once into a list
List(f) == f \o << >>

\* ------------------------------------------------------------------------
\* _get_neighbors
\* ------------------------------------------------------------------------

\* positions of the potential neighbours, in the order of the source
\* the neighbour list with (ys + 1, xs + 1) written twice
neighbors_Typo(ys, xs) ==
    << <<ys + 0, xs + 1>>, <<ys + 1, xs + 1>>,
       <<ys + 1, xs + 0>>, <<ys + 1, xs + 1>>,
       <<ys + 0, xs - 1>>, <<ys - 1, xs - 1>>,
       <<ys - 1, xs + 0>>, <<ys - 1, xs + 1>> >>

neighbors(ys, xs) ==
    << <<ys + 0, xs + 1>>, <<ys + 1, xs + 1>>,
       <<ys + 1, xs + 0>>, <<ys + 1, xs - 1>>,
       <<ys + 0, xs - 1>>, <<ys - 1, xs - 1>>,
       <<ys - 1, xs + 0>>, <<ys - 1, xs + 1>> >>

\* the bounds filter with a strict lower bound
valid_neighbors_StrictLow(ys, xs, dims) ==
    LET Valid(c) == (0 < c[1] /\ c[1] < dims[1]) /\ (0 < c[2] /\ c[2] < dims[2])
    IN SelectSeq(neighbors(ys, xs), Valid)

valid_neighbors(ys, xs, dims) ==
    LET Valid(c) == (0 <= c[1] /\ c[1] < dims[1]) /\ (0 <= c[2] /\ c[2] < dims[2])
    IN SelectSeq(neighbors(ys, xs), Valid)

\* the edge from the cell at coordinate src to the cell dest at coordinate
\* dst, given the current (u, v) at the source
edge_to(src, dst, dest, current, timestep) ==
    LET g        == GeodInv(src, dst)
        theta    == g.azimuth % 360
        velocity == g.dist \div timestep
        u_adj    == Scale(velocity, SinMilli(theta))
        v_adj    == Scale(velocity, CosMilli(theta))
        u        == u_adj - current[1]
        v        == v_adj - current[2]
    IN [dest    |-> encode_node_id(dest),
        weight  |-> ISqrt(u * u + v * v),
        azimuth |-> theta]

\* _get_neighbors(ys, xs, dims): the edges leaving (ys, xs), or the IndexError
\* numpy raises
get_neighbors(latlons, currents, timestep, ys, xs, dims) ==
    LET vn == valid_neighbors(ys, xs, dims)
    IN IF \/ ~InBounds(latlons, <<ys, xs>>)
          \/ \E i \in 1 .. Len(vn) : ~InBounds(latlons, vn[i])
          \/ Len(vn) = 0
          \/ ~InBounds(currents, <<ys, xs>>)
       THEN [ok |-> FALSE, err |-> "IndexError"]
       ELSE [ok    |-> TRUE,
             src   |-> encode_node_id(<<ys, xs>>),
             edges |-> List([i \in 1 .. Len(vn) |->
                          edge_to(latlons.at[<<ys, xs>>], latlons.at[vn[i]], vn[i],
                                  currents.at[<<ys, xs>>], timestep)])]

\* ------------------------------------------------------------------------
\* networkx.DiGraph: a function from node to its out-edges in insertion order
\* ------------------------------------------------------------------------

\* DiGraph.add_edge(u, v, **data) on u's adjacency: a new neighbour is
\* appended, a known one has its data replaced in place
RECURSIVE add_edges_from(_, _, _)
add_edges_from(adj, es, i) ==
    IF i > Len(es) THEN adj
    ELSE LET at == {j \in 1 .. Len(adj) : adj[j].dest = es[i].dest}
         IN IF at = {}
            THEN add_edges_from(Append(adj, es[i]), es, i + 1)
            ELSE add_edges_from([j \in 1 .. Len(adj) |-> IF j \in at THEN es[i] ELSE adj[j]],
                                es, i + 1)

\* the adjacency of node n after add_edges_from(ns[k].edges) for each k in turn
RECURSIVE adjacency(_, _, _, _)
adjacency(ns, n, k, adj) ==
    IF k > Len(ns) THEN adj
    ELSE IF ns[k].src = n
         THEN adjacency(ns, n, k + 1, add_edges_from(adj, ns[k].edges, 1))
         ELSE adjacency(ns, n, k + 1, adj)

\* the DiGraph after add_edges_from(ns[k]) for every k: its nodes are the
\* sources and destinations of the edges added
DiGraph(ns) ==
    LET nodes == {ns[k].src : k \in {j \in 1 .. Len(ns) : Len(ns[j].edges) > 0}}
                 \cup UNION {{ns[k].edges[i].dest : i \in 1 .. Len(ns[k].edges)} :
                                k \in 1 .. Len(ns)}
    IN [n \in nodes |-> adjacency(ns, n, 1, << >>)]

\* ------------------------------------------------------------------------
\* _transform_map
\* ------------------------------------------------------------------------

transform_map(latlons, currents, timestep) ==
    LET order == RowMajor(currents.shape)
        ns    == List([k \in 1 .. Len(order) |->
                    get_neighbors(latlons, currents, timestep,
                                  order[k][1], order[k][2], currents.shape)])
    IN IF \E k \in 1 .. Len(order) : ~ns[k].ok
       THEN [ok |-> FALSE, err |-> "IndexError"]
       ELSE [ok |-> TRUE, graph |-> DiGraph(ns)]

\* ------------------------------------------------------------------------
\* _build_tree, scipy.spatial.KDTree.query and _geo_idx
\* ------------------------------------------------------------------------

\* the KD-tree's data: the flattened list of grid coordinates
build_tree(latlons) ==
    LET order == RowMajor(latlons.shape)
    IN [i \in 1 .. Len(order) |-> latlons.at[order[i]]]

SqDist(a, b) == (a[1] - b[1]) * (a[1] - b[1]) + (a[2] - b[2]) * (a[2] - b[2])

\* kdtree.query(p)[1]: the (0-based) indices a nearest-neighbour query may
\* return; equidistant points are a tie the library breaks as it likes
kd_query(kdtree, p) ==
    {i \in 0 .. Len(kdtree) - 1 :
        \A j \in 0 .. Len(kdtree) - 1 : SqDist(kdtree[i + 1], p) <= SqDist(kdtree[j + 1], p)}

\* np.unravel_index(i, shape)
unravel_index(i, shape) ==
    IF i >= shape[1] * shape[2] THEN [ok |-> FALSE, err |-> "ValueError"]
    ELSE [ok |-> TRUE, idx |-> << i \div shape[2], i % shape[2] >>]

\* ------------------------------------------------------------------------
\* networkx.dijkstra_path
\* ------------------------------------------------------------------------

Put(f, k, v) == IF k \in DOMAIN f THEN [f EXCEPT ![k] = v] ELSE f @@ (k :> v)

\* heapq.heappop on entries (d, c, v): least distance first, then least count
HeapMin(fringe) ==
    CHOOSE f \in fringe :
        \A g \in fringe : f.d < g.d \/ (f.d = g.d /\ f.c <= g.c)

\* the loop over G_succ[v].items(): st is [seen, paths, fringe, c]
RECURSIVE relax(_, _, _, _, _)
relax(es, i, v, dist, st) ==
    IF i > Len(es) THEN st
    ELSE LET u       == es[i].dest
             vu_dist == dist[v] + es[i].weight
         IN IF u \notin DOMAIN dist /\ (u \notin DOMAIN st.seen \/ vu_dist < st.seen[u])
            THEN relax(es, i + 1, v, dist,
                       [seen   |-> Put(st.seen, u, vu_dist),
                        paths  |-> Put(st.paths, u, Append(st.paths[v], u)),
                        fringe |-> st.fringe \cup {[d |-> vu_dist, c |-> st.c, v |-> u]},
                        c      |-> st.c + 1])
            ELSE relax(es, i + 1, v, dist, st)

\* _dijkstra_multisource: the paths found when the search stops
RECURSIVE dijkstra_loop(_, _, _, _)
dijkstra_loop(G, target, dist, st) ==
    IF st.fringe = {} THEN st.paths
    ELSE LET top  == HeapMin(st.fringe)
             rest == [st EXCEPT !.fringe = st.fringe \ {top}]
         IN IF top.v \in DOMAIN dist THEN dijkstra_loop(G, target, dist, rest)
            ELSE LET dist2 == dist @@ (top.v :> top.d)
                 IN IF top.v = target THEN rest.paths
                    ELSE dijkstra_loop(G, target, dist2,
                                       relax(G[top.v], 1, top.v, dist2, rest))

\* nx.dijkstra_path(G, source, target): the path, or the exception raised
dijkstra_path(G, source, target) ==
    IF source \notin DOMAIN G THEN [ok |-> FALSE, err |-> "NodeNotFound"]
    ELSE IF target = source THEN [ok |-> TRUE, path |-> << target >>]
    ELSE LET paths == dijkstra_loop(G, target, << >>,
                                    [seen   |-> (source :> 0),
                                     paths  |-> (source :> << source >>),
                                     fringe |-> {[d |-> 0, c |-> 0, v |-> source]},
                                     c      |-> 1])
         IN IF target \in DOMAIN paths THEN [ok |-> TRUE, path |-> paths[target]]
            ELSE [ok |-> FALSE, err |-> "NetworkXNoPath"]

\* G.edges[(u, v)]['azimuth'], or the KeyError
\* the azimuth taken from the first edge leaving u, whatever its head
edge_azimuth_FirstEdge(G, u, v) ==
    IF u \in DOMAIN G /\ Len(G[u]) > 0
    THEN [ok |-> TRUE, azimuth |-> G[u][1].azimuth]
    ELSE [ok |-> FALSE, err |-> "KeyError"]

edge_azimuth(G, u, v) ==
    IF u \in DOMAIN G /\ \E i \in 1 .. Len(G[u]) : G[u][i].dest = v
    THEN [ok |-> TRUE,
          azimuth |-> G[u][CHOOSE i \in 1 .. Len(G[u]) : G[u][i].dest = v].azimuth]
    ELSE [ok |-> FALSE, err |-> "KeyError"]

\* ------------------------------------------------------------------------
\* The grids and query points callers pass in
\* ------------------------------------------------------------------------

\* calls each thread makes
MaxCalls == 1

\* a coordinate array with uniform spacing: cell (r, c) lies at
\* (origin.lat + r * latStep, origin.lon + c * lonStep)
MakeLatlons(shape, origin, latStep, lonStep) ==
    [shape |-> shape,
     at    |-> [c \in Cells(shape) |->
                  << origin[1] + c[1] * latStep, origin[2] + c[2] * lonStep >>]]

\* a flow field: (u, v) = base in row 0, growing by gain with every row
MakeCurrents(shape, base, gain) ==
    [shape |-> shape,
     at    |-> [c \in Cells(shape) |->
                  << base[1] + c[1] * gain[1], base[2] + c[1] * gain[2] >>]]

Big   == << MaxDim, MaxDim >>
Small == << MaxDim - 1, MaxDim - 1 >>

\* rows running south from the north-west corner; rows running north from the
\* south-west corner; a smaller grid
LatNorthUp == MakeLatlons(Big, << MaxDim - 1, 0 >>, -1, 1)
LatSouthUp == MakeLatlons(Big, << 0, 0 >>, 1, 1)
LatSmall   == MakeLatlons(Small, << MaxDim - 1, 0 >>, -1, 1)

CurZero  == MakeCurrents(Big, << 0, 0 >>, << 0, 0 >>)
CurShear == MakeCurrents(Big, << 0, 100 >>, << 100, -100 >>)
CurSmall == MakeCurrents(Small, << 0, 0 >>, << 0, 0 >>)

\* the (latlons, currents) pairs a ModuleNavigation is constructed with
InitGrids == { << LatNorthUp, CurZero >>, << LatSmall, CurSmall >> }

\* the (latlons, currents) pairs passed to set_currents_map
Updates ==
    { << LatSouthUp, CurShear >>, << LatSmall, CurSmall >>,
      << LatNorthUp, CurZero >>, << LatSmall, CurZero >> }

\* nav_timestep
Timesteps == {1}

\* query points
GeoPoints == { << MaxDim - 1, 0 >>, << MaxDim - 2, 1 >> }

Writers == {"w1", "w2"}
Readers == {"r1"}
Threads == Writers \cup Readers

\* ------------------------------------------------------------------------
\* State
\* ------------------------------------------------------------------------

VARIABLES
    latlons,    \* self.latlons
    currents,   \* self.currents
    timestep,   \* self.timestep
    nav_graph,  \* self.nav_graph
    kdtree,     \* self.kdtree
    map_lock,   \* self.map_lock: [owner, count] of the RLock
    pc,         \* per thread: the line it is about to execute
    local,      \* per thread: the frame of the call in progress
    calls,      \* per thread: calls made so far
    probe       \* the last sequential evaluation: [op, in, out]

vars == << latlons, currents, timestep, nav_graph, kdtree, map_lock, pc, local, calls, probe >>

engine == << latlons, currents, timestep, nav_graph, kdtree >>

NoThread == "none"

\* a fresh frame
Frame(op, args) ==
    [op       |-> op,
     args     |-> args,
     kd       |-> 0,            \* result[1] of kdtree.query
     sh0      |-> 0,            \* self.latlons.shape[0] as read
     idx_pos  |-> << >>,
     idx_dest |-> << >>,
     path     |-> << >>,        \* shortest_path
     next_az  |-> 0,
     coords   |-> << >>,        \* path_coords
     val      |-> << >>,        \* get_current's result
     ret      |-> "none",       \* "ok" or the exception raised
     saved    |-> << >>,        \* the engine's fields when the lock was taken
     lread    |-> {},           \* values of self.latlons the call has read
     cread    |-> {},           \* values of self.currents the call has read
     gread    |-> {}]           \* values of self.nav_graph the call has read

\* __init__(nav_timestep, latlons, currents): the object exists only if the
\* constructor did not raise
Constructed(g, ts) ==
    /\ transform_map(g[1], g[2], ts).ok
    /\ latlons = g[1]
    /\ currents = g[2]
    /\ timestep = ts
    /\ nav_graph = transform_map(g[1], g[2], ts).graph
    /\ kdtree = build_tree(g[1])
    /\ map_lock = [owner |-> NoThread, count |-> 0]

Init ==
    /\ \E g \in InitGrids, ts \in Timesteps : Constructed(g, ts)
    /\ pc = [t \in Threads |-> "idle"]
    /\ local = [t \in Threads |-> Frame("none", << >>)]
    /\ calls = [t \in Threads |-> 0]
    /\ probe = [op |-> "none", in |-> << >>, out |-> << >>]

Goto(t, label) == pc' = [pc EXCEPT ![t] = label]

CanCall(t) == pc[t] \in {"idle", "done"} /\ calls[t] < MaxCalls

Call(t, op, args, label) ==
    /\ CanCall(t)
    /\ calls' = [calls EXCEPT ![t] = @ + 1]
    /\ local' = [local EXCEPT ![t] = Frame(op, args)]
    /\ Goto(t, label)

\* the call raises err / returns
Raise(t, err) ==
    /\ local' = [local EXCEPT ![t].ret = err]
    /\ Goto(t, "done")

\* ------------------------------------------------------------------------
\* set_currents_map
\* ------------------------------------------------------------------------

scm_call(t, L, C) ==
    /\ t \in Writers
    /\ Call(t, "scm", << L, C >>, "scm_25")
    /\ UNCHANGED << engine, map_lock, probe >>

\* with self.map_lock:  (RLock.acquire)
scm_acquire(t) ==
    /\ pc[t] = "scm_25"
    /\ map_lock.owner \in {NoThread, t}
    /\ map_lock' = [owner |-> t, count |-> map_lock.count + 1]
    /\ local' = [local EXCEPT ![t].saved = << latlons, currents, nav_graph, kdtree >>]
    /\ Goto(t, "scm_26")
    /\ UNCHANGED << engine, calls, probe >>

\* self.latlons = latlons
scm_latlons(t) ==
    /\ pc[t] = "scm_26"
    /\ latlons' = local[t].args[1]
    /\ Goto(t, "scm_27")
    /\ UNCHANGED << currents, timestep, nav_graph, kdtree, map_lock, local, calls, probe >>

\* self.currents = currents
scm_currents(t) ==
    /\ pc[t] = "scm_27"
    /\ currents' = local[t].args[2]
    /\ Goto(t, "scm_28")
    /\ UNCHANGED << latlons, timestep, nav_graph, kdtree, map_lock, local, calls, probe >>

\* self.nav_graph = self._transform_map()
scm_transform(t) ==
    /\ pc[t] = "scm_28"
    /\ LET r == transform_map(latlons, currents, timestep)
       IN IF r.ok
          THEN /\ nav_graph' = r.graph
               /\ local' = [local EXCEPT ![t].ret = "ok"]
          ELSE /\ nav_graph' = nav_graph
               /\ local' = [local EXCEPT ![t].ret = r.err]
    /\ Goto(t, "scm_exit")
    /\ UNCHANGED << latlons, currents, timestep, kdtree, map_lock, calls, probe >>

\* leaving the with block (RLock.release), normally or by the exception
scm_release(t) ==
    /\ pc[t] = "scm_exit"
    /\ map_lock' = IF map_lock.count = 1
                   THEN [owner |-> NoThread, count |-> 0]
                   ELSE [map_lock EXCEPT !.count = @ - 1]
    /\ local' = [local EXCEPT ![t].saved = << >>]
    /\ Goto(t, "done")
    /\ UNCHANGED << engine, calls, probe >>

\* ------------------------------------------------------------------------
\* _geo_idx, as called at lines 40, 41 and 60
\* ------------------------------------------------------------------------

GeoIdxSites == {"gna_40", "gna_41", "gc_60"}

\* the argument of the call of _geo_idx at a site, and the line after it
GeoIdxArg(t, site) == IF site = "gna_41" THEN local[t].args[2] ELSE local[t].args[1]

GeoIdxNext(site) ==
    CASE site = "gna_40" -> "gna_41"
      [] site = "gna_41" -> "gna_46"
      [] OTHER           -> "gc_61"

\* inside _geo_idx (line 67), between the two reads of self.latlons
GeoIdxMid(site) ==
    CASE site = "gna_40" -> "gna_40_67"
      [] site = "gna_41" -> "gna_41_67"
      [] OTHER           -> "gc_60_67"

\* result = self.kdtree.query((lat, lon)), then the read of
\* self.latlons.shape[0]
geo_idx_query(t) ==
    /\ pc[t] \in GeoIdxSites
    /\ \E i \in kd_query(kdtree, GeoIdxArg(t, pc[t])) :
          local' = [local EXCEPT ![t].kd = i,
                                 ![t].sh0 = latlons.shape[1],
                                 ![t].lread = @ \cup {latlons}]
    /\ Goto(t, GeoIdxMid(pc[t]))
    /\ UNCHANGED << engine, map_lock, calls, probe >>

\* the read of self.latlons.shape[1], then np.unravel_index
geo_idx_unravel(t) ==
    /\ pc[t] \in {GeoIdxMid(site) : site \in GeoIdxSites}
    /\ LET site == CHOOSE x \in GeoIdxSites : GeoIdxMid(x) = pc[t]
           r    == unravel_index(local[t].kd, << local[t].sh0, latlons.shape[2] >>)
       IN IF r.ok
          THEN /\ local' = [local EXCEPT
                              ![t].idx_pos  = IF site = "gna_41" THEN @ ELSE r.idx,
                              ![t].idx_dest = IF site = "gna_41" THEN r.idx ELSE @,
                              ![t].lread    = @ \cup {latlons}]
               /\ Goto(t, GeoIdxNext(site))
          ELSE /\ local' = [local EXCEPT ![t].ret = r.err,
                                         ![t].lread = @ \cup {latlons}]
               /\ Goto(t, "done")
    /\ UNCHANGED << engine, map_lock, calls, probe >>

\* ------------------------------------------------------------------------
\* get_next_azimuth
\* ------------------------------------------------------------------------

gna_call(t, geo_pos, geo_dest) ==
    /\ t \in Readers
    /\ Call(t, "gna", << geo_pos, geo_dest >>, "gna_40")
    /\ UNCHANGED << engine, map_lock, probe >>

\* lines 43-48: encode both cells, nx.dijkstra_path on self.nav_graph, and
\* next_node = shortest_path[1]
gna_dijkstra(t) ==
    /\ pc[t] = "gna_46"
    /\ LET src_node  == encode_node_id(local[t].idx_pos)
           dest_node == encode_node_id(local[t].idx_dest)
           r         == dijkstra_path(nav_graph, src_node, dest_node)
       IN IF ~r.ok
          THEN /\ local' = [local EXCEPT ![t].ret = r.err, ![t].gread = @ \cup {nav_graph}]
               /\ Goto(t, "done")
          ELSE IF Len(r.path) < 2
          THEN /\ local' = [local EXCEPT ![t].path = r.path, ![t].ret = "IndexError",
                                         ![t].gread = @ \cup {nav_graph}]
               /\ Goto(t, "done")
          ELSE /\ local' = [local EXCEPT ![t].path = r.path,
                                         ![t].gread = @ \cup {nav_graph}]
               /\ Goto(t, "gna_50")
    /\ UNCHANGED << engine, map_lock, calls, probe >>

\* next_az = self.nav_graph.edges[(src_node, next_node)]['azimuth']
gna_azimuth(t) ==
    /\ pc[t] = "gna_50"
    /\ LET r == edge_azimuth(nav_graph, encode_node_id(local[t].idx_pos), local[t].path[2])
       IN IF r.ok
          THEN /\ local' = [local EXCEPT ![t].next_az = r.azimuth,
                                         ![t].gread = @ \cup {nav_graph}]
               /\ Goto(t, "gna_54")
          ELSE /\ local' = [local EXCEPT ![t].ret = r.err, ![t].gread = @ \cup {nav_graph}]
               /\ Goto(t, "done")
    /\ UNCHANGED << engine, map_lock, calls, probe >>

\* lines 52-56: one element of [self.latlons[y, x] for (y, x) in path_ids];
\* after the last one the call returns next_az, path_coords
gna_coords(t) ==
    /\ pc[t] = "gna_54"
    /\ LET k    == Len(local[t].coords) + 1
           cell == decode_node_id(local[t].path[k])
       IN IF ~InBounds(latlons, cell)
          THEN /\ local' = [local EXCEPT ![t].ret = "IndexError",
                                         ![t].lread = @ \cup {latlons}]
               /\ Goto(t, "done")
          ELSE /\ local' = [local EXCEPT
                              ![t].coords = Append(@, latlons.at[cell]),
                              ![t].lread  = @ \cup {latlons},
                              ![t].ret    = IF k = Len(local[t].path) THEN "ok" ELSE @]
               /\ Goto(t, IF k = Len(local[t].path) THEN "done" ELSE "gna_54")
    /\ UNCHANGED << engine, map_lock, calls, probe >>

\* ------------------------------------------------------------------------
\* get_current
\* ------------------------------------------------------------------------

gc_call(t, geo_pos) ==
    /\ t \in Readers
    /\ Call(t, "gc", << geo_pos >>, "gc_60")
    /\ UNCHANGED << engine, map_lock, probe >>

\* return self.currents[y, x]
gc_read(t) ==
    /\ pc[t] = "gc_61"
    /\ IF InBounds(currents, local[t].idx_pos)
       THEN local' = [local EXCEPT ![t].val = currents.at[local[t].idx_pos],
                                   ![t].cread = @ \cup {currents},
                                   ![t].ret = "ok"]
       ELSE local' = [local EXCEPT ![t].ret = "IndexError",
                                   ![t].cread = @ \cup {currents}]
    /\ Goto(t, "done")
    /\ UNCHANGED << engine, map_lock, calls, probe >>

\* ------------------------------------------------------------------------
\* The program: threads sharing one ModuleNavigation
\* ------------------------------------------------------------------------

Next ==
    \E t \in Threads :
        \/ \E u \in Updates : scm_call(t, u[1], u[2])
        \/ scm_acquire(t)
        \/ scm_latlons(t)
        \/ scm_currents(t)
        \/ scm_transform(t)
        \/ scm_release(t)
        \/ \E p \in GeoPoints, q \in GeoPoints : gna_call(t, p, q)
        \/ geo_idx_query(t)
        \/ geo_idx_unravel(t)
        \/ gna_dijkstra(t)
        \/ gna_azimuth(t)
        \/ gna_coords(t)
        \/ \E p \in GeoPoints : gc_call(t, p)
        \/ gc_read(t)

Spec == Init /\ [][Next]_vars

\* ------------------------------------------------------------------------
\* Single-threaded use: every handler runs to completion as one step
\* ------------------------------------------------------------------------

\* the grids of every shape up to MaxDim x MaxDim
Shapes == (1 .. MaxDim) \X (1 .. MaxDim)

SeqLatlons(shape) ==
    { MakeLatlons(shape, << shape[1] - 1, 0 >>, -1, 1),
      MakeLatlons(shape, << 0, 0 >>, 1, 1),
      MakeLatlons(shape, << 2 * (shape[1] - 1), 0 >>, -2, 2) }

SeqCurrents(shape) ==
    { MakeCurrents(shape, << 0, 0 >>, << 0, 0 >>),
      MakeCurrents(shape, << 0, 100 >>, << 100, -100 >>) }

\* coordinates and flow of one shape, and two pairs of mismatched shapes
SeqGrids ==
    UNION {SeqLatlons(sh) \X SeqCurrents(sh) : sh \in Shapes}
    \cup { << LatNorthUp, CurSmall >>, << LatSmall, CurZero >> }

\* the grids passed to set_currents_map when it runs alone
BuildGrids ==
    UNION {{ << MakeLatlons(sh, << sh[1] - 1, 0 >>, -1, 1),
                MakeCurrents(sh, << 0, 0 >>, << 0, 0 >>) >>,
             << MakeLatlons(sh, << 0, 0 >>, 1, 1),
                MakeCurrents(sh, << 0, 100 >>, << 100, -100 >>) >> } : sh \in Shapes}
    \cup { << LatNorthUp, CurSmall >>, << LatSmall, CurZero >> }

SeqTimesteps == {1, 2}

NoFrames ==
    /\ pc = [t \in Threads |-> "idle"]
    /\ local = [t \in Threads |-> Frame("none", << >>)]
    /\ calls = [t \in Threads |-> 0]

\* _geo_idx(geo_pos): the cells (or the ValueError) the call may produce
geo_idx(kdt, L, geo_pos) == {unravel_index(i, L.shape) : i \in kd_query(kdt, geo_pos)}

Outcome(ret, idx_pos, idx_dest, path, next_az, coords) ==
    [ret |-> ret, idx_pos |-> idx_pos, idx_dest |-> idx_dest, path |-> path,
     next_az |-> next_az, coords |-> coords]

\* get_next_azimuth from line 43 on, for the cells _geo_idx returned
get_next_azimuth(L, G, idx_pos, idx_dest) ==
    LET src_node  == encode_node_id(idx_pos)
        dest_node == encode_node_id(idx_dest)
        r         == dijkstra_path(G, src_node, dest_node)
    IN IF ~r.ok THEN Outcome(r.err, idx_pos, idx_dest, << >>, 0, << >>)
       ELSE IF Len(r.path) < 2
       THEN Outcome("IndexError", idx_pos, idx_dest, r.path, 0, << >>)
       ELSE LET az       == edge_azimuth(G, src_node, r.path[2])
                path_ids == List([k \in 1 .. Len(r.path) |-> decode_node_id(r.path[k])])
            IN IF ~az.ok THEN Outcome(az.err, idx_pos, idx_dest, r.path, 0, << >>)
               ELSE IF \E k \in 1 .. Len(path_ids) : ~InBounds(L, path_ids[k])
               THEN Outcome("IndexError", idx_pos, idx_dest, r.path, az.azimuth, << >>)
               ELSE Outcome("ok", idx_pos, idx_dest, r.path, az.azimuth,
                            List([k \in 1 .. Len(path_ids) |-> L.at[path_ids[k]]]))

seq_get_next_azimuth(geo_pos, geo_dest) ==
    /\ \E a \in geo_idx(kdtree, latlons, geo_pos), b \in geo_idx(kdtree, latlons, geo_dest) :
          probe' = [op  |-> "gna",
                    in  |-> << geo_pos, geo_dest >>,
                    out |-> IF ~a.ok THEN Outcome(a.err, << >>, << >>, << >>, 0, << >>)
                            ELSE IF ~b.ok THEN Outcome(b.err, a.idx, << >>, << >>, 0, << >>)
                            ELSE get_next_azimuth(latlons, nav_graph, a.idx, b.idx)]
    /\ UNCHANGED << engine, map_lock, pc, local, calls >>

seq_get_current(geo_pos) ==
    /\ \E a \in geo_idx(kdtree, latlons, geo_pos) :
          probe' = [op  |-> "gc",
                    in  |-> << geo_pos >>,
                    out |-> IF ~a.ok THEN [ret |-> a.err, val |-> << >>]
                            ELSE IF ~InBounds(currents, a.idx)
                            THEN [ret |-> "IndexError", val |-> << >>]
                            ELSE [ret |-> "ok", val |-> currents.at[a.idx]]]
    /\ UNCHANGED << engine, map_lock, pc, local, calls >>

\* set_currents_map(L, C) with nobody else running
seq_set_currents_map(L, C) ==
    /\ map_lock.owner = NoThread
    /\ latlons' = L
    /\ currents' = C
    /\ LET r == transform_map(L, C, timestep)
       IN /\ nav_graph' = IF r.ok THEN r.graph ELSE nav_graph
          /\ probe' = [op |-> "scm", in |-> << L.shape, C.shape >>,
                       out |-> [ret |-> IF r.ok THEN "ok" ELSE r.err]]
    /\ UNCHANGED << timestep, kdtree, map_lock, pc, local, calls >>

\* the coordinates of the cells of row 0, and of all cells, of the current grid
RowZeroCoords == {latlons.at[c] : c \in {d \in Cells(latlons.shape) : d[1] = 0}}
GridCoords    == {latlons.at[c] : c \in Cells(latlons.shape)}

InitBuild ==
    /\ \E g \in InitGrids, ts \in SeqTimesteps : Constructed(g, ts)
    /\ NoFrames
    /\ probe = [op |-> "none", in |-> << >>, out |-> << >>]

NextBuild == \E g \in BuildGrids : seq_set_currents_map(g[1], g[2])

SpecBuild == InitBuild /\ [][NextBuild]_vars

InitQuery ==
    /\ \E g \in SeqGrids, ts \in SeqTimesteps : Constructed(g, ts)
    /\ NoFrames
    /\ probe = [op |-> "none", in |-> << >>, out |-> << >>]

NextQuery ==
    \/ \E p \in RowZeroCoords, q \in GridCoords : seq_get_next_azimuth(p, q)
    \/ \E p \in RowZeroCoords : seq_get_current(p)

SpecQuery == InitQuery /\ [][NextQuery]_vars

\* ------------------------------------------------------------------------
\* The static helpers on their own
\* ------------------------------------------------------------------------

\* row and column numbers packed into node ids
CodecSamples ==
    (0 .. MaxDim) \cup {255, 256, 65535, 65536, 16777215, 16777216, 2147483647}

\* _encode_node_id((y, x)) and _decode_node_id of the result
eval_codec(y, x) ==
    /\ probe' = [op  |-> "codec",
                 in  |-> << y, x >>,
                 out |-> [id  |-> encode_node_id(<< y, x >>),
                          pos |-> decode_node_id(encode_node_id(<< y, x >>))]]
    /\ UNCHANGED << engine, map_lock, pc, local, calls >>

\* lines 126-133 of _get_neighbors(ys, xs, dims)
eval_neighbors(ys, xs, dims) ==
    /\ probe' = [op  |-> "neighbors",
                 in  |-> << ys, xs, dims >>,
                 out |-> valid_neighbors(ys, xs, dims)]
    /\ UNCHANGED << engine, map_lock, pc, local, calls >>

InitFn ==
    /\ Constructed(<< LatNorthUp, CurZero >>, 1)
    /\ NoFrames
    /\ probe = [op |-> "none", in |-> << >>, out |-> << >>]

NextFn ==
    \/ \E y \in CodecSamples, x \in CodecSamples : eval_codec(y, x)
    \/ \E dims \in Shapes : \E c \in Cells(dims) : eval_neighbors(c[1], c[2], dims)

SpecFn == InitFn /\ [][NextFn]_vars

\* ------------------------------------------------------------------------
\* Notions the claims are stated in
\* ------------------------------------------------------------------------

\* every (latlons, currents) pair handed to the engine, with what
\* _transform_map makes of it
Versions ==
    {[lat |-> g[1], cur |-> g[2], ts |-> ts, built |-> transform_map(g[1], g[2], ts)] :
        g \in InitGrids \cup Updates, ts \in Timesteps}

GoodVersions == {v \in Versions : v.built.ok}

\* the engine's fields are those of version v
IsVersion(v, L, C, G) == L = v.lat /\ C = v.cur /\ G = v.built.graph

InCriticalSection(t) == pc[t] \in {"scm_26", "scm_27", "scm_28", "scm_exit"}

Quiescent == \A t \in Writers : pc[t] \in {"idle", "done"}

RECURSIVE SetToSeq(_)
SetToSeq(S) ==
    IF S = {} THEN << >>
    ELSE LET x == CHOOSE y \in S : TRUE IN << x >> \o SetToSeq(S \ {x})

HasEdge(G, a, b) == a \in DOMAIN G /\ \E k \in 1 .. Len(G[a]) : G[a][k].dest = b

EdgeData(G, a, b) == G[a][CHOOSE k \in 1 .. Len(G[a]) : G[a][k].dest = b]

SetMin(S) == CHOOSE m \in S : \A x \in S : m <= x

\* the costs at which node i is reached after one more edge; D is indexed
\* like nodes and holds -1 for a node not reached yet
Reach(G, nodes, D, i) ==
    {D[j] + EdgeData(G, nodes[j], nodes[i]).weight :
        j \in {m \in 1 .. Len(nodes) : D[m] >= 0 /\ HasEdge(G, nodes[m], nodes[i])}}
    \cup (IF D[i] >= 0 THEN {D[i]} ELSE {})

\* one round of relaxation over all edges
Relaxed(G, nodes, D) ==
    List([i \in 1 .. Len(nodes) |->
            LET c == Reach(G, nodes, D, i) IN IF c = {} THEN -1 ELSE SetMin(c)])

RECURSIVE Rounds(_, _, _, _)
Rounds(G, nodes, D, n) == IF n = 0 THEN D ELSE Rounds(G, nodes, Relaxed(G, nodes, D), n - 1)

\* the least total weight of a path from s to d in G (Bellman-Ford), -1 when
\* there is none
MinCost(G, s, d) ==
    LET nodes == SetToSeq(DOMAIN G)
        D0    == List([i \in 1 .. Len(nodes) |-> IF nodes[i] = s THEN 0 ELSE -1])
        D     == Rounds(G, nodes, D0, Len(nodes))
    IN D[CHOOSE i \in 1 .. Len(nodes) : nodes[i] = d]

RECURSIVE PathCost(_, _, _)
PathCost(G, path, i) ==
    IF i >= Len(path) THEN 0
    ELSE EdgeData(G, path[i], path[i + 1]).weight + PathCost(G, path, i + 1)

\* what C6 says of a successful route, read against graph G and coordinates L
RouteIsShortest(G, L, out) ==
    /\ Len(out.path) >= 2
    /\ Len(out.coords) = Len(out.path)
    /\ InBounds(L, out.idx_pos) /\ InBounds(L, out.idx_dest)
    /\ out.coords[1] = L.at[out.idx_pos]
    /\ out.coords[Len(out.coords)] = L.at[out.idx_dest]
    /\ \A i \in 1 .. Len(out.path) - 1 : HasEdge(G, out.path[i], out.path[i + 1])
    /\ PathCost(G, out.path, 1)
         = MinCost(G, encode_node_id(out.idx_pos), encode_node_id(out.idx_dest))
    /\ out.next_az = EdgeData(G, out.path[1], out.path[2]).azimuth

\* ------------------------------------------------------------------------
\* Claims about the engine under concurrent use (Spec)
\* ------------------------------------------------------------------------

\* C1: whenever no set_currents_map is in progress, the spatial index
\* (kdtree) and the navigation graph (nav_graph) derive from the same grid
\* version: some pair handed to the constructor or to set_currents_map gives
\* both this kdtree and this nav_graph.
C1_IndexAndGraphSameVersion ==
    Quiescent =>
        \E v \in GoodVersions : kdtree = build_tree(v.lat) /\ nav_graph = v.built.graph

\* C2: a finished query has read latlons, currents and nav_graph from a single
\* field version: every value of self.latlons, self.currents and
\* self.nav_graph it read belongs to one and the same version.
C2_QueryReadsSingleVersion ==
    \A t \in Readers :
        pc[t] = "done" =>
            \E v \in GoodVersions :
                /\ local[t].lread \subseteq {v.lat}
                /\ local[t].cread \subseteq {v.cur}
                /\ local[t].gread \subseteq {v.built.graph}

\* C3: when the rebuild of a set_currents_map fails, the engine's fields are
\* exactly what they were when the call took the lock.
C3_FailedRebuildKeepsSnapshot ==
    \A t \in Writers :
        (pc[t] = "scm_exit" /\ local[t].ret # "ok") =>
            << latlons, currents, nav_graph, kdtree >> = local[t].saved

\* C4: a get_next_azimuth whose two points resolve to the same cell fails with
\* the error kind DegenerateRoute and with no other.
C4_SameCellIsDegenerateRoute ==
    \A t \in Readers :
        (/\ pc[t] = "done" /\ local[t].op = "gna"
         /\ local[t].idx_dest # << >>
         /\ local[t].idx_pos = local[t].idx_dest)
        => local[t].ret = "DegenerateRoute"

\* C6: a successful get_next_azimuth between distinct cells returns a path
\* from the source's coordinate to the destination's, along edges of
\* nav_graph, of least total weight in nav_graph, and the azimuth of that
\* graph's edge from the first path cell to the second.
C6_RouteIsShortestPath ==
    \A t \in Readers :
        (/\ pc[t] = "done" /\ local[t].op = "gna" /\ local[t].ret = "ok"
         /\ local[t].idx_pos # local[t].idx_dest)
        => \E G \in local[t].gread, L \in local[t].lread :
              RouteIsShortest(G, L, local[t])

\* C10: set_currents_map calls never overlap between acquiring and releasing
\* map_lock, the lock is free once every call has returned or failed, and the
\* state they leave is the complete state of one call: latlons, currents and
\* nav_graph of a single version.
C10_UpdatesSerializeCompletely ==
    /\ Cardinality({t \in Writers : InCriticalSection(t)}) <= 1
    /\ Quiescent =>
          /\ map_lock.owner = NoThread
          /\ \E v \in GoodVersions : IsVersion(v, latlons, currents, nav_graph)

\* ------------------------------------------------------------------------
\* Claims about a build, a query and the static helpers run alone
\* ------------------------------------------------------------------------

Adjacent(a, b) == a # b /\ Abs(a[1] - b[1]) <= 1 /\ Abs(a[2] - b[2]) <= 1

\* G is the 8-connected grid graph on the cells of shape: its vertices are
\* the cells' ids, and it has one edge a -> b exactly for adjacent a, b
IsKingGraph(G, shape) ==
    /\ DOMAIN G = {encode_node_id(c) : c \in Cells(shape)}
    /\ \A a \in Cells(shape) :
          LET out == G[encode_node_id(a)]
          IN /\ \A i \in 1 .. Len(out) : \A j \in 1 .. Len(out) :
                   out[i].dest = out[j].dest => i = j
             /\ {out[i].dest : i \in 1 .. Len(out)}
                  = {encode_node_id(b) : b \in {c \in Cells(shape) : Adjacent(a, c)}}

\* C5: after the constructor and after every successful set_currents_map,
\* nav_graph is exactly the 8-connected graph of the grid just supplied: one
\* vertex per cell, one edge for each ordered pair of distinct cells whose
\* rows and columns differ by at most one, no self-loop and no other edge.
C5_GraphIsKingGraph ==
    (probe.op = "none" \/ (probe.op = "scm" /\ probe.out.ret = "ok"))
        => IsKingGraph(nav_graph, currents.shape)

\* a successful update to a grid with fewer cells than the one indexed at
\* construction: every vertex and edge of the larger graph had to go
C5_Witness ==
    /\ probe.op = "scm" /\ probe.out.ret = "ok"
    /\ currents.shape[1] * currents.shape[2] < Len(kdtree)
    /\ currents.shape[1] >= 2 /\ currents.shape[2] >= 2

ZeroFlow(C) == \A c \in Cells(C.shape) : C.at[c] = << 0, 0 >>

Sign(n) == IF n > 0 THEN 1 ELSE IF n < 0 THEN -1 ELSE 0

OnDiagonal(s, d) == s # d /\ Abs(d[1] - s[1]) = Abs(d[2] - s[2])

\* the cells from s to d along their common diagonal
DiagonalCells(s, d) ==
    [k \in 1 .. Abs(d[1] - s[1]) + 1 |->
        << s[1] + (k - 1) * Sign(d[1] - s[1]), s[2] + (k - 1) * Sign(d[2] - s[2]) >>]

\* the 1-degree grid whose rows run south from its north-west corner
NorthUpUnit(L) == L = MakeLatlons(L.shape, << L.shape[1] - 1, 0 >>, -1, 1)

C8_CodecRoundTrip ==
    probe.op = "codec" =>
        /\ probe.out.pos = probe.in
        /\ Len(probe.out.id) = 8
        /\ \A y \in CodecSamples, x \in CodecSamples :
              encode_node_id(<< y, x >>) = probe.out.id => << y, x >> = probe.in

\* a pair whose components need the third and the fourth byte
C8_Witness ==
    /\ probe.op = "codec"
    /\ probe.in = << 65536, 16777216 >>
    /\ probe.out.pos = << 65536, 16777216 >>

OnBorder(c, dims) == c[1] \in {0, dims[1] - 1} \/ c[2] \in {0, dims[2] - 1}

IsCorner(c, dims) == c[1] \in {0, dims[1] - 1} /\ c[2] \in {0, dims[2] - 1}

\* the neighbour count the cell's position calls for, the bounds and the
\* absence of the cell itself
NeighborsAsCounted ==
    LET c    == << probe.in[1], probe.in[2] >>
        dims == probe.in[3]
        out  == probe.out
    IN /\ Len(out) = IF IsCorner(c, dims) THEN 3
                     ELSE IF OnBorder(c, dims) THEN 5 ELSE 8
       /\ \A i \in 1 .. Len(out) :
             /\ 0 <= out[i][1] /\ out[i][1] < dims[1]
             /\ 0 <= out[i][2] /\ out[i][2] < dims[2]
             /\ out[i] # c

\* C9 as written: for every cell of every grid the valid neighbours number 8
\* in the interior, 3 in a corner and 5 elsewhere on the border, all are in
\* bounds and none is the cell itself.
C9_NeighborCounts == probe.op = "neighbors" => NeighborsAsCounted

\* C9 for grids of at least two rows and two columns: the valid neighbours
\* number 8 in the interior, 3 in a corner and 5 elsewhere on the border,
\* all are in bounds and none is the cell itself.
C9_NeighborCountsFromTwoByTwo ==
    (probe.op = "neighbors" /\ probe.in[3][1] >= 2 /\ probe.in[3][2] >= 2)
        => NeighborsAsCounted

\* a corner of a grid of at least two rows and two columns, with its three
\* neighbours
C9_Witness ==
    /\ probe.op = "neighbors"
    /\ probe.in[3][1] >= 2 /\ probe.in[3][2] >= 3
    /\ << probe.in[1], probe.in[2] >> = << 0, 0 >>
    /\ Len(probe.out) = 3

====
